---- MODULE Spec2Model ----
(***************************************************************************)
(* Model of mutable.py: the `mutable` decorator that hands a fresh copy of *)
(* a default value to every call that omits the parameter.                 *)
(*                                                                         *)
(* Python objects live in `heap`, a sequence of objects indexed by their   *)
(* identity; a reference is an index into the heap.  A list object holds   *)
(* the references of its elements, an int object is immutable.             *)
(***************************************************************************)
EXTENDS Integers, Sequences, FiniteSets, TLC

VARIABLES f, heap, phase, form, args, use_deepcopy, copyfunction, copy_,
          arguments, kwonly_arguments, err, calls

vars == <<f, heap, phase, form, args, use_deepcopy, copyfunction, copy_,
          arguments, kwonly_arguments, err, calls>>

\* ---------------------------------------------------------------- bounds
MaxCalls == 2   \* calls made to one wrapped callable
MaxNames == 2   \* names given to mutable(...)

\* ------------------------------------------------------------ the objects
\* An int has a value.  A list holds the references of its elements; a dict
\* holds key, value, key, value, ... in insertion order.
IntObj(v)   == [kind |-> "int",  elems |-> << >>, val |-> v]
ListObj(es) == [kind |-> "list", elems |-> es, val |-> 0]
DictObj(es) == [kind |-> "dict", elems |-> es, val |-> 0]

\* The containers a caller has of its own, to give for a container
\* parameter.  The ints of a call are made by the call: see CallerInts.
CallerList == 1
CallerDict == 2
CallerHeap == <<ListObj(<< >>), DictObj(<< >>)>>

None == "None"

\* A callable as getfullargspec describes it: args, defaults (references),
\* kwonlyargs, kwonlydefaults (name -> reference), varargs; its body; what
\* a caller gives for each parameter ("n": the number of the call, "m": the
\* number after it, "list", "dict"); the heap with the caller's containers
\* and the default objects, which exist once the def has run.
Sig(a, d, ka, kd, va, body, given, h) ==
    [args |-> a, defaults |-> d, kwonlyargs |-> ka, kwonlydefaults |-> kd,
     varargs |-> va, body |-> body, given |-> given, heap |-> h]

\* test_mutable.py: def f(x, a=[]): a.append(x)        f(1); f(2)
one_trap ==
    Sig(<<"x", "a">>, <<3>>, << >>, << >>, FALSE, "append",
        ("x" :> "n") @@ ("a" :> "list"),
        CallerHeap \o <<ListObj(<< >>)>>)
\* test_mutable.py: def f(x, *, a=[]): a.append(x)
one_kwonly_trap ==
    Sig(<<"x">>, << >>, <<"a">>, ("a" :> 3), FALSE, "append",
        ("x" :> "n") @@ ("a" :> "list"),
        CallerHeap \o <<ListObj(<< >>)>>)
\* test_mutable.py: def f(x, a=[], b=[]): a.append(x); b.append(x)
two_traps ==
    Sig(<<"x", "a", "b">>, <<3, 4>>, << >>, << >>, FALSE, "append",
        ("x" :> "n") @@ ("a" :> "list") @@ ("b" :> "list"),
        CallerHeap \o <<ListObj(<< >>), ListObj(<< >>)>>)
\* the docstring: def g(a, b=[], *args, c, d={}): b.append(a); d[a] = c
\* called as g(1, c=2); g(2, c=3)
docstring_g ==
    Sig(<<"a", "b">>, <<3>>, <<"c", "d">>, ("d" :> 4), TRUE, "docstring",
        ("a" :> "n") @@ ("b" :> "list") @@ ("c" :> "m") @@ ("d" :> "dict"),
        CallerHeap \o <<ListObj(<< >>), DictObj(<< >>)>>)
\* Callables that are not in the repository, given to mutable as inputs.
\* def f(x, a=[[]]): a.append(x)       a default with a nested container
nested_trap ==
    Sig(<<"x", "a">>, <<3>>, << >>, << >>, FALSE, "append",
        ("x" :> "n") @@ ("a" :> "list"),
        CallerHeap \o <<ListObj(<<4>>), ListObj(<< >>)>>)
\* def f(x, y, n=0): pass              two required parameters, an int default
int_default ==
    Sig(<<"x", "y", "n">>, <<3>>, << >>, << >>, FALSE, "pass",
        ("x" :> "n") @@ ("y" :> "list") @@ ("n" :> "m"),
        CallerHeap \o <<IntObj(0)>>)
\* def f(x, y): pass                   no default at all
no_defaults ==
    Sig(<<"x", "y">>, << >>, << >>, << >>, FALSE, "pass",
        ("x" :> "n") @@ ("y" :> "list"),
        CallerHeap)

Callables == {one_trap, one_kwonly_trap, two_traps, docstring_g,
              nested_trap, int_default, no_defaults}

\* ------------------------------------------------------- sequence helpers
Range(s) == {s[i] : i \in DOMAIN s}

\* list.index(v): 0-based position of the first occurrence
Index(s, v) == (CHOOSE i \in DOMAIN s : s[i] = v /\ \A j \in 1..(i-1) : s[j] # v) - 1

RECURSIVE SeqsUpTo(_, _)
SeqsUpTo(S, n) ==
    IF n = 0 THEN {<< >>}
    ELSE LET shorter == SeqsUpTo(S, n - 1)
         IN shorter \cup {Append(s, v) : s \in shorter, v \in S}

ParamNames(g) == Range(g.args) \cup Range(g.kwonlyargs)

\* ------------------------------------------------------ copy and deepcopy
\* copy.copy: a new top-level container with the same element references;
\* an immutable object is returned as is.
Copy(h, o) ==
    IF h[o].kind = "int" THEN [heap |-> h, ref |-> o]
    ELSE [heap |-> Append(h, [h[o] EXCEPT !.elems = h[o].elems]),
          ref |-> Len(h) + 1]

\* copy.deepcopy: the memo maps an already copied object to its copy.
RECURSIVE DeepCopyRec(_, _, _), DeepCopyElems(_, _, _, _, _)
DeepCopyRec(h, memo, o) ==
    IF o \in DOMAIN memo THEN [heap |-> h, memo |-> memo, ref |-> memo[o]]
    ELSE IF h[o].kind = "int" THEN [heap |-> h, memo |-> memo, ref |-> o]
    ELSE LET y == Len(h) + 1
         IN DeepCopyElems(Append(h, [h[o] EXCEPT !.elems = << >>]),
                          memo @@ (o :> y), o, y, 1)

DeepCopyElems(h, memo, o, y, i) ==
    IF i > Len(h[o].elems) THEN [heap |-> h, memo |-> memo, ref |-> y]
    ELSE LET r == DeepCopyRec(h, memo, h[o].elems[i])
         IN DeepCopyElems([r.heap EXCEPT ![y].elems = Append(@, r.ref)],
                          r.memo, o, y, i + 1)

DeepCopy(h, o) ==
    LET r == DeepCopyRec(h, << >>, o) IN [heap |-> r.heap, ref |-> r.ref]

\* The copy functions a caller may pass as copyfunction=...
Identity(h, o) == [heap |-> h, ref |-> o]     \* lambda v: v
CopyFunctions == {"identity"}

\* variant: the default object itself is handed over
ApplyCopyShared(c, h, o) == Identity(h, o)

\* _copy(arg.default_val)
ApplyCopy(c, h, o) ==
    CASE c = "copy"     -> Copy(h, o)
      [] c = "deepcopy" -> DeepCopy(h, o)
      [] c = "identity" -> Identity(h, o)

\* ------------------------------------------------------------ truthiness
\* bool(v) of the values `if` is applied to: a function object is truthy.
DeepcopyFunction == [type |-> "function", val |-> TRUE]
Truthy(v) == IF v.type = "bool" THEN v.val ELSE TRUE

\* ------------------------------------------------------ mutable: lines 181-188
\* An exception: its type, the name its message carries (None when it
\* carries none) and whether its message carries the callable.
\*   ValueError(f"{arg} is not a valid argument of {f}")   arg, f
\*   ValueError("Cannot specify copyfunction if deepcopy is True")
\*   IndexError("tuple index out of range")                 neither
\*   KeyError(arg)                                          arg
NoError == [type |-> "none", what |-> None, callable |-> FALSE]
Error(t, w, c) == [type |-> t, what |-> w, callable |-> c]

\* variant: a copyfunction silently wins, whatever the flag
SelectCopyNoRaise(ud, cf) ==
    IF cf # None THEN [err |-> NoError, copy |-> cf]
    ELSE [err |-> NoError, copy |-> "deepcopy"]

\* The name `deepcopy` in `if deepcopy:` is the function imported from copy.
SelectCopy(ud, cf) ==
    IF Truthy(DeepcopyFunction)
    THEN IF cf # None
         THEN [err |-> Error("ValueError", "copyfunction", FALSE), copy |-> "deepcopy"]
         ELSE [err |-> NoError, copy |-> "deepcopy"]
    ELSE IF cf # None
         THEN [err |-> NoError, copy |-> cf]
         ELSE [err |-> NoError, copy |-> "copy"]

\* --------------------------------------------------- signature analysis
_get_default_args(g) == g.defaults
_get_default_kwargs(g) == g.kwonlydefaults

\* tuple[k]: a negative k counts from the end, anything else out of range
\* raises IndexError.
TupleInRange(t, k) == k >= -Len(t) /\ k < Len(t)
TupleGet(t, k) == IF k >= 0 THEN t[k + 1] ELSE t[Len(t) + k + 1]

Parameter(name, idx, default_val) ==
    [name |-> name, idx |-> idx, default_val |-> default_val]
KWParameter(name, default_val) ==
    [name |-> name, default_val |-> default_val]

_get_arginfo(argument, g) ==
    LET f_arguments == g.args
        defaults == _get_default_args(g)
        start_defaults_idx == Len(f_arguments) - Len(defaults)
        current_argument_idx == Index(f_arguments, argument)
        k == current_argument_idx - start_defaults_idx
    IN IF TupleInRange(defaults, k)
       THEN [err |-> NoError,
             val |-> Parameter(argument, current_argument_idx, TupleGet(defaults, k))]
       ELSE [err |-> Error("IndexError", None, FALSE), val |-> None]

_get_kwonly_arginfo(argument, g) ==
    LET kwdefaults == _get_default_kwargs(g)
    IN IF argument \in DOMAIN kwdefaults
       THEN [err |-> NoError, val |-> KWParameter(argument, kwdefaults[argument])]
       ELSE [err |-> Error("KeyError", argument, FALSE), val |-> None]

\* variant: the slice starts one parameter late
_get_arguments_with_defaults_late(g) ==
    LET f_arguments == g.args
        defaults == _get_default_args(g)
        numargs == Len(f_arguments)
        first_default_idx == numargs - Len(defaults)
        args_with_defaults == SubSeq(f_arguments, first_default_idx + 2, numargs)
    IN [i \in DOMAIN args_with_defaults |->
            _get_arginfo(args_with_defaults[i], g).val]

_get_arguments_with_defaults(g) ==
    LET f_arguments == g.args
        defaults == _get_default_args(g)
        numargs == Len(f_arguments)
        first_default_idx == numargs - Len(defaults)
        args_with_defaults == SubSeq(f_arguments, first_default_idx + 1, numargs)
    IN [i \in DOMAIN args_with_defaults |->
            _get_arginfo(args_with_defaults[i], g).val]

\* kwdefaults.keys(): the defaulted keyword-only names in declaration order
KwDefaultKeys(g) == SelectSeq(g.kwonlyargs, LAMBDA n : n \in DOMAIN g.kwonlydefaults)

_get_kwonly_arguments_with_defaults(g) ==
    LET keys == KwDefaultKeys(g)
    IN [i \in DOMAIN keys |-> _get_kwonly_arginfo(keys[i], g).val]

RECURSIVE ClassifyLoop(_, _, _, _, _)
ClassifyLoop(as, g, i, pos, kw) ==
    IF i > Len(as)
    THEN [err |-> NoError, arguments |-> pos, kwonly_arguments |-> kw]
    ELSE LET arg == as[i] IN
         IF arg \in Range(g.args)
         THEN LET r == _get_arginfo(arg, g)
              IN IF r.err # NoError
                 THEN [err |-> r.err, arguments |-> << >>, kwonly_arguments |-> << >>]
                 ELSE ClassifyLoop(as, g, i + 1, Append(pos, r.val), kw)
         ELSE IF arg \in Range(g.kwonlyargs)
         THEN LET r == _get_kwonly_arginfo(arg, g)
              IN IF r.err # NoError
                 THEN [err |-> r.err, arguments |-> << >>, kwonly_arguments |-> << >>]
                 ELSE ClassifyLoop(as, g, i + 1, pos, Append(kw, r.val))
         ELSE [err |-> Error("ValueError", arg, TRUE),
               arguments |-> << >>, kwonly_arguments |-> << >>]

\* variant: the names are ignored, every defaulted parameter is tracked
_get_argument_lists_all(as, g) ==
    [err |-> NoError,
     arguments |-> _get_arguments_with_defaults(g),
     kwonly_arguments |-> _get_kwonly_arguments_with_defaults(g)]

_get_argument_lists(as, g) ==
    IF Len(as) = 0
    THEN [err |-> NoError,
          arguments |-> _get_arguments_with_defaults(g),
          kwonly_arguments |-> _get_kwonly_arguments_with_defaults(g)]
    ELSE ClassifyLoop(as, g, 1, << >>, << >>)

\* ------------------------------------------------------- the call wrapper
\* variant: a keyword given by the caller is not looked at
_arg_supplied_by_position(argument, P, K) == Len(P) > argument.idx

_arg_supplied_to_call(argument, P, K) ==
    (Len(P) > argument.idx) \/ (argument.name \in DOMAIN K)

kw_supplied_to_call(argument, P, K) == argument.name \in DOMAIN K

\* The two `for arg in ...` loops of safe_f.  st carries the heap, the
\* kwargs_dict built so far and the defaults _copy was applied to.
RECURSIVE InjectPositional(_, _, _, _, _, _)
InjectPositional(as, i, c, P, K, st) ==
    IF i > Len(as) THEN st
    ELSE IF ~_arg_supplied_to_call(as[i], P, K)
    THEN LET r == ApplyCopy(c, st.heap, as[i].default_val)
         IN InjectPositional(as, i + 1, c, P, K,
              [heap |-> r.heap,
               kwargs_dict |-> (as[i].name :> r.ref) @@ st.kwargs_dict,
               copied |-> Append(st.copied, as[i].default_val)])
    ELSE InjectPositional(as, i + 1, c, P, K, st)

RECURSIVE InjectKwonly(_, _, _, _, _, _)
InjectKwonly(as, i, c, P, K, st) ==
    IF i > Len(as) THEN st
    ELSE IF ~kw_supplied_to_call(as[i], P, K)
    THEN LET r == ApplyCopy(c, st.heap, as[i].default_val)
         IN InjectKwonly(as, i + 1, c, P, K,
              [heap |-> r.heap,
               kwargs_dict |-> (as[i].name :> r.ref) @@ st.kwargs_dict,
               copied |-> Append(st.copied, as[i].default_val)])
    ELSE InjectKwonly(as, i + 1, c, P, K, st)

\* What f gets: f(*_args, **_kwargs, **kwargs_dict)
PassedArgs(P) == P
PassedKwargs(K, kwargs_dict) == K @@ kwargs_dict

\* Python's binding of a call f(*P, **KW) to f's parameters.
BindError(g, P, KW) ==
    LET n == Len(g.args)
        start == n - Len(g.defaults)
    IN \/ Len(P) > n /\ ~g.varargs
       \/ \E name \in DOMAIN KW : name \notin ParamNames(g)
       \/ \E name \in DOMAIN KW \cap Range(g.args) : Index(g.args, name) < Len(P)
       \/ \E i \in 0..(n - 1) :
             i >= Len(P) /\ g.args[i + 1] \notin DOMAIN KW /\ i < start
       \/ \E name \in Range(g.kwonlyargs) :
             name \notin DOMAIN KW /\ name \notin DOMAIN g.kwonlydefaults

Bind(g, P, KW) ==
    LET n == Len(g.args)
        start == n - Len(g.defaults)
    IN [name \in ParamNames(g) |->
          IF name \in Range(g.args)
          THEN LET i == Index(g.args, name)
               IN IF i < Len(P) THEN P[i + 1]
                  ELSE IF name \in DOMAIN KW THEN KW[name]
                  ELSE g.defaults[i - start + 1]
          ELSE IF name \in DOMAIN KW THEN KW[name]
               ELSE g.kwonlydefaults[name]]

\* The bodies.  "append": the fixtures' a.append(x) for every parameter
\* after the first.  "docstring": b.append(a); d[a] = c, where a key that
\* is not hashable raises TypeError after the append has happened.
RECURSIVE AppendBody(_, _, _, _)
AppendBody(params, i, bound, h) ==
    IF i > Len(params) THEN h
    ELSE AppendBody(params, i + 1, bound,
                    [h EXCEPT ![bound[params[i]]].elems = Append(@, bound[params[1]])])

\* d[k] = v on the key, value, ... sequence of a dict; int keys are equal
\* when their values are
SetItem(h, es, k, v) ==
    IF \E i \in DOMAIN es : i % 2 = 1 /\ h[es[i]].val = h[k].val
    THEN [es EXCEPT ![(CHOOSE i \in DOMAIN es :
                          i % 2 = 1 /\ h[es[i]].val = h[k].val) + 1] = v]
    ELSE es \o <<k, v>>

Body(g, bound, h) ==
    CASE g.body = "append" ->
           [heap |-> AppendBody(g.args \o g.kwonlyargs, 2, bound, h),
            outcome |-> "ok"]
      [] g.body = "docstring" ->
           LET h1 == [h EXCEPT ![bound["b"]].elems = Append(@, bound["a"])]
           IN IF h1[bound["a"]].kind # "int"
              THEN [heap |-> h1, outcome |-> "raised"]
              ELSE [heap |-> [h1 EXCEPT ![bound["d"]].elems =
                                SetItem(h1, @, bound["a"], bound["c"])],
                    outcome |-> "ok"]
      [] g.body = "pass" -> [heap |-> h, outcome |-> "ok"]

CallRecord(P, K, st, outcome, bound) ==
    [P |-> P, K |-> K, kwargs_dict |-> st.kwargs_dict, copied |-> st.copied,
     passed_args |-> PassedArgs(P),
     passed_kwargs |-> PassedKwargs(K, st.kwargs_dict),
     heap_at_call |-> st.heap,
     outcome |-> outcome, bound |-> bound]

\* ----------------------------------------------------------------- inputs
\* The names given to mutable(...): f's own parameter names and one name f
\* does not have, each at most once, in any order.
NameSeqs(g) ==
    {s \in SeqsUpTo(ParamNames(g) \cup {"zzz"}, MaxNames) :
        \A i, j \in DOMAIN s : i # j => s[i] # s[j]}

\* The ints the caller makes for its next call: the number of the call
\* (one_mutable(1), one_mutable(2)) and the number after it (c=2, c=3).
CallerInts(n) == <<IntObj(n), IntObj(n + 1)>>

\* The object given for a parameter by a call made when the heap has base
\* objects and the call's ints come right after them.
CallerValue(g, name, base) ==
    CASE g.given[name] = "n"    -> base + 1
      [] g.given[name] = "m"    -> base + 2
      [] g.given[name] = "list" -> CallerList
      [] g.given[name] = "dict" -> CallerDict

\* P: up to as many positional arguments as f declares (none lands in
\* *args).  K: no keyword argument or one.
PositionalInputs(g, base) ==
    {[i \in 1..n |-> CallerValue(g, g.args[i], base)] : n \in 0..Len(g.args)}
KeywordInputs(g, base) ==
    {<< >>} \cup {(name :> CallerValue(g, name, base)) : name \in ParamNames(g)}

\* ------------------------------------------------------------------ state
Init ==
    /\ f \in Callables
    /\ heap = f.heap
    /\ phase = "start"
    /\ form = None
    /\ args = << >>
    /\ use_deepcopy = FALSE
    /\ copyfunction = None
    /\ copy_ = None
    /\ arguments = << >>
    /\ kwonly_arguments = << >>
    /\ err = NoError
    /\ calls = << >>

\* mutable_decorator(f): lines 190-209
mutable_decorator(as, g) == _get_argument_lists(as, g)

\* mutable('a', ..., use_deepcopy=ud, copyfunction=cf): returns the decorator
MutableFactory(names, ud, cf) ==
    /\ phase = "start"
    /\ form' = "factory"
    /\ args' = names
    /\ use_deepcopy' = ud
    /\ copyfunction' = cf
    /\ LET r == SelectCopy(ud, cf)
       IN IF r.err # NoError
          THEN /\ phase' = "error"
               /\ err' = r.err
               /\ copy_' = None
          ELSE /\ phase' = "decorator"
               /\ err' = NoError
               /\ copy_' = r.copy
    /\ UNCHANGED <<f, heap, arguments, kwonly_arguments, calls>>

\* the decorator applied to f
MutableDecorator ==
    /\ phase = "decorator"
    /\ LET r == mutable_decorator(args, f)
       IN IF r.err # NoError
          THEN /\ phase' = "error"
               /\ err' = r.err
               /\ UNCHANGED <<arguments, kwonly_arguments>>
          ELSE /\ phase' = "wrapped"
               /\ err' = NoError
               /\ arguments' = r.arguments
               /\ kwonly_arguments' = r.kwonly_arguments
    /\ UNCHANGED <<f, heap, form, args, use_deepcopy, copyfunction, copy_, calls>>

\* mutable(f, use_deepcopy=ud, copyfunction=cf): args = (f,), rebound to ()
MutableBare(ud, cf) ==
    /\ phase = "start"
    /\ form' = "bare"
    /\ args' = << >>
    /\ use_deepcopy' = ud
    /\ copyfunction' = cf
    /\ LET r == SelectCopy(ud, cf)
       IN IF r.err # NoError
          THEN /\ phase' = "error"
               /\ err' = r.err
               /\ copy_' = None
               /\ UNCHANGED <<arguments, kwonly_arguments>>
          ELSE LET d == mutable_decorator(<< >>, f)
               IN /\ copy_' = r.copy
                  /\ IF d.err # NoError
                     THEN /\ phase' = "error"
                          /\ err' = d.err
                          /\ UNCHANGED <<arguments, kwonly_arguments>>
                     ELSE /\ phase' = "wrapped"
                          /\ err' = NoError
                          /\ arguments' = d.arguments
                          /\ kwonly_arguments' = d.kwonly_arguments
    /\ UNCHANGED <<f, heap, calls>>

\* safe_f(*P, **K)
safe_f(P, K) ==
    /\ phase = "wrapped"
    /\ Len(calls) < MaxCalls
    /\ LET st0 == [heap |-> heap \o CallerInts(Len(calls) + 1),
                   kwargs_dict |-> << >>, copied |-> << >>]
           st1 == InjectPositional(arguments, 1, copy_, P, K, st0)
           st2 == InjectKwonly(kwonly_arguments, 1, copy_, P, K, st1)
           PA == PassedArgs(P)
           KW == PassedKwargs(K, st2.kwargs_dict)
       IN IF DOMAIN K \cap DOMAIN st2.kwargs_dict # {} \/ BindError(f, PA, KW)
          THEN /\ heap' = st2.heap
               /\ calls' = Append(calls, CallRecord(P, K, st2, "TypeError", << >>))
          ELSE LET bound == Bind(f, PA, KW)
                   r == Body(f, bound, st2.heap)
               IN /\ heap' = r.heap
                  /\ calls' = Append(calls, CallRecord(P, K, st2, r.outcome, bound))
    /\ UNCHANGED <<f, phase, form, args, use_deepcopy, copyfunction, copy_,
                   arguments, kwonly_arguments, err>>

\* The guards are repeated in front of the quantifiers so that the inputs
\* are enumerated only where the operation can happen.
Next ==
    \/ /\ phase = "start"
       /\ \E names \in NameSeqs(f), ud \in BOOLEAN, cf \in {None} \cup CopyFunctions :
             MutableFactory(names, ud, cf)
    \/ /\ phase = "start"
       /\ \E ud \in BOOLEAN, cf \in {None} \cup CopyFunctions : MutableBare(ud, cf)
    \/ MutableDecorator
    \/ /\ phase = "wrapped"
       /\ Len(calls) < MaxCalls
       /\ \E P \in PositionalInputs(f, Len(heap)), K \in KeywordInputs(f, Len(heap)) :
             safe_f(P, K)

Spec == Init /\ [][Next]_vars

\* =================================================================
\* Properties
\* =================================================================
\* What the signature of g declares, stated from the signature alone.
FirstDefaultIndex(g) == Len(g.args) - Len(g.defaults)
IsPositional(g, name) == \E i \in DOMAIN g.args : g.args[i] = name
PositionOf(g, name) == (CHOOSE i \in DOMAIN g.args : g.args[i] = name) - 1
HasDefault(g, name) ==
    \/ IsPositional(g, name) /\ PositionOf(g, name) >= FirstDefaultIndex(g)
    \/ name \in DOMAIN g.kwonlydefaults
DeclaredDefault(g, name) ==
    IF IsPositional(g, name)
    THEN g.defaults[PositionOf(g, name) - FirstDefaultIndex(g) + 1]
    ELSE g.kwonlydefaults[name]
IsContainerDefault(g, name) ==
    HasDefault(g, name) /\ g.heap[DeclaredDefault(g, name)].kind # "int"

TrackedNames ==
    {arguments[i].name : i \in DOMAIN arguments}
        \cup {kwonly_arguments[i].name : i \in DOMAIN kwonly_arguments}

\* The caller of call c gave no value for name, by position or by keyword.
Omits(c, name) ==
    /\ name \notin DOMAIN c.K
    /\ IsPositional(f, name) => Len(c.P) <= PositionOf(f, name)

\* the calls in which f was entered (its parameters were bound)
OkCalls == {i \in DOMAIN calls : calls[i].outcome # "TypeError"}
OmittingCalls(name) == {i \in OkCalls : Omits(calls[i], name)}

\* The content of an object: its kind and the contents of its elements.
RECURSIVE Content(_, _)
Content(h, o) ==
    [kind |-> h[o].kind, val |-> h[o].val,
     items |-> [i \in DOMAIN h[o].elems |-> Content(h, h[o].elems[i])]]

\* The decorator has been applied to f (mutable itself did not raise).
Applied == phase \in {"wrapped", "error"} /\ copy_ # None

\* ------------------------------------------------------------------ C1
\* C1: for a defaulted container parameter p that the wrapper tracks, any
\* two calls that omit p hand f distinct objects for p, and none of them is
\* the declared default object.
C1_FreshPerCall ==
    phase = "wrapped" =>
      \A name \in TrackedNames :
        IsContainerDefault(f, name) =>
          \A i \in OmittingCalls(name) :
            /\ calls[i].bound[name] # DeclaredDefault(f, name)
            /\ \A j \in OmittingCalls(name) :
                 i # j => calls[i].bound[name] # calls[j].bound[name]

C1_Witness ==
    /\ phase = "wrapped"
    /\ \E name \in TrackedNames :
         /\ IsContainerDefault(f, name)
         /\ Cardinality(OmittingCalls(name)) >= 2

\* ------------------------------------------------------------------ C2
\* C2: after any calls whose body mutates what it was given, every default
\* stored in the tracked parameter set still has its declared content, and
\* a call that omits a tracked parameter receives a value with that content.
C2_PristineDefault ==
    phase = "wrapped" =>
      /\ \A i \in DOMAIN arguments :
           Content(heap, arguments[i].default_val)
             = Content(f.heap, arguments[i].default_val)
      /\ \A i \in DOMAIN kwonly_arguments :
           Content(heap, kwonly_arguments[i].default_val)
             = Content(f.heap, kwonly_arguments[i].default_val)
      /\ \A c \in DOMAIN calls : \A i \in DOMAIN arguments :
           arguments[i].name \in DOMAIN calls[c].kwargs_dict =>
             Content(calls[c].heap_at_call, calls[c].kwargs_dict[arguments[i].name])
               = Content(f.heap, arguments[i].default_val)
      /\ \A c \in DOMAIN calls : \A i \in DOMAIN kwonly_arguments :
           kwonly_arguments[i].name \in DOMAIN calls[c].kwargs_dict =>
             Content(calls[c].heap_at_call,
                     calls[c].kwargs_dict[kwonly_arguments[i].name])
               = Content(f.heap, kwonly_arguments[i].default_val)

\* ------------------------------------------------------------------ C3
\* C3: with names given, a defaulted parameter that is not named is never
\* injected: every call omitting it gets the declared default object, and
\* what the body appends to it accumulates; a named defaulted container
\* parameter still gets a fresh object on each call.
Unlisted == {name \in ParamNames(f) : HasDefault(f, name) /\ name \notin Range(args)}
Listed == {name \in Range(args) : name \in ParamNames(f) /\ IsContainerDefault(f, name)}

C3_SelectiveProtection ==
    (phase = "wrapped" /\ Len(args) > 0) =>
      /\ \A name \in Unlisted :
           /\ \A i \in DOMAIN calls : name \notin DOMAIN calls[i].kwargs_dict
           /\ \A i \in OmittingCalls(name) :
                calls[i].bound[name] = DeclaredDefault(f, name)
           /\ (f.heap[DeclaredDefault(f, name)].kind = "list"
                 /\ f.body # "pass" /\ name # f.args[1]) =>
                Len(heap[DeclaredDefault(f, name)].elems)
                  = Len(f.heap[DeclaredDefault(f, name)].elems)
                      + Cardinality(OmittingCalls(name))
      /\ \A name \in Listed :
           \A i, j \in OmittingCalls(name) :
             /\ calls[i].bound[name] # DeclaredDefault(f, name)
             /\ i # j => calls[i].bound[name] # calls[j].bound[name]

C3_Witness ==
    /\ phase = "wrapped"
    /\ f = two_traps
    /\ args = <<"a">>
    /\ Len(calls) = 2
    /\ \A i \in 1..2 : calls[i].outcome = "ok" /\ Omits(calls[i], "a")
                        /\ Omits(calls[i], "b")
    /\ calls[1].bound["b"] = calls[2].bound["b"]
    /\ calls[1].bound["a"] # calls[2].bound["a"]
    /\ Len(heap[4].elems) = 2

\* ------------------------------------------------------------------ C4
\* C4: f receives P and K unchanged plus injected entries for exactly the
\* tracked parameters that were not supplied (positional: len(P) > index or
\* name in K; keyword-only: name in K); for a supplied tracked parameter
\* the copy function is not invoked and f gets the caller's own object; the
\* injected names are disjoint from the keys of K.
SuppliedPositional(c, p) == Len(c.P) > p.idx \/ p.name \in DOMAIN c.K
SuppliedKwonly(c, p) == p.name \in DOMAIN c.K
NotSuppliedNames(c) ==
    {arguments[i].name : i \in {j \in DOMAIN arguments : ~SuppliedPositional(c, arguments[j])}}
      \cup {kwonly_arguments[i].name :
              i \in {j \in DOMAIN kwonly_arguments : ~SuppliedKwonly(c, kwonly_arguments[j])}}
NotSuppliedDefaults(c) ==
    {arguments[i].default_val : i \in {j \in DOMAIN arguments : ~SuppliedPositional(c, arguments[j])}}
      \cup {kwonly_arguments[i].default_val :
              i \in {j \in DOMAIN kwonly_arguments : ~SuppliedKwonly(c, kwonly_arguments[j])}}
NotSuppliedCount(c) ==
    Cardinality({j \in DOMAIN arguments : ~SuppliedPositional(c, arguments[j])})
      + Cardinality({j \in DOMAIN kwonly_arguments : ~SuppliedKwonly(c, kwonly_arguments[j])})

C4_CallFrame ==
    \A i \in DOMAIN calls :
      LET c == calls[i] IN
      /\ c.passed_args = c.P
      /\ DOMAIN c.passed_kwargs = DOMAIN c.K \cup DOMAIN c.kwargs_dict
      /\ \A name \in DOMAIN c.K : c.passed_kwargs[name] = c.K[name]
      /\ \A name \in DOMAIN c.kwargs_dict :
           c.passed_kwargs[name] = c.kwargs_dict[name]
      /\ DOMAIN c.kwargs_dict = NotSuppliedNames(c)
      /\ DOMAIN c.kwargs_dict \cap DOMAIN c.K = {}
      /\ Range(c.copied) = NotSuppliedDefaults(c)
      /\ Len(c.copied) = NotSuppliedCount(c)
      /\ c.outcome # "TypeError" =>
           /\ \A j \in DOMAIN arguments :
                SuppliedPositional(c, arguments[j]) =>
                  c.bound[arguments[j].name]
                    = IF Len(c.P) > arguments[j].idx
                      THEN c.P[arguments[j].idx + 1]
                      ELSE c.K[arguments[j].name]
           /\ \A j \in DOMAIN kwonly_arguments :
                SuppliedKwonly(c, kwonly_arguments[j]) =>
                  c.bound[kwonly_arguments[j].name] = c.K[kwonly_arguments[j].name]

\* a call that supplies one tracked parameter by keyword, another call that
\* supplies one by position, and a call that gets an injected copy
C4_Witness ==
    /\ phase = "wrapped"
    /\ \E i \in OkCalls : \E j \in DOMAIN arguments :
         /\ arguments[j].name \in DOMAIN calls[i].K
         /\ calls[i].bound[arguments[j].name] = CallerList
         /\ DOMAIN calls[i].kwargs_dict # {}
    /\ \E i \in OkCalls : \E j \in DOMAIN arguments :
         /\ Len(calls[i].P) > arguments[j].idx
         /\ calls[i].bound[arguments[j].name] = CallerList
         /\ calls[i].copied = << >>

\* ------------------------------------------------------------------ C5
\* C5: naming a parameter of f that has no default raises when the
\* decorator is applied: no wrapper exists, no call succeeds, and no
\* tracked entry pairs such a parameter with a default value.
NoDefaultNames == {name \in Range(args) : name \in ParamNames(f) /\ ~HasDefault(f, name)}

C5_NoDefaultRaises ==
    /\ (Applied /\ NoDefaultNames # {}) => (phase = "error" /\ calls = << >>)
    /\ \A name \in TrackedNames : HasDefault(f, name)

\* ------------------------------------------------------------------ C6
\* C6: naming something that is no parameter of f raises, when the
\* decorator is applied and before any call, an error that identifies the
\* offending name and the callable: no wrapper is returned and the name is
\* never skipped.
NotParameters == {args[i] : i \in {j \in DOMAIN args : args[j] \notin ParamNames(f)}}

C6_UnknownNameRaises ==
    (Applied /\ NotParameters # {}) =>
      /\ phase = "error"
      /\ calls = << >>
      /\ arguments = << >> /\ kwonly_arguments = << >>
      /\ err.type # "none"
      /\ err.what \in NotParameters
      /\ err.callable

\* ------------------------------------------------------------------ C7
\* C7: with use_deepcopy false and no copyfunction the injected value is a
\* shallow copy: a new top-level container holding the very same element
\* objects as the declared default.
C7_ShallowByDefault ==
    (phase = "wrapped" /\ ~use_deepcopy /\ copyfunction = None) =>
      \A i \in DOMAIN calls : \A name \in DOMAIN calls[i].kwargs_dict :
        IsContainerDefault(f, name) =>
          /\ calls[i].kwargs_dict[name] # DeclaredDefault(f, name)
          /\ calls[i].heap_at_call[calls[i].kwargs_dict[name]].elems
               = calls[i].heap_at_call[DeclaredDefault(f, name)].elems

\* ------------------------------------------------------------------ C8
\* C8: with a copyfunction and use_deepcopy false, constructing the
\* decorator succeeds and every injected value is copyfunction(default).
C8_CopyfunctionWins ==
    (phase # "start" /\ copyfunction # None /\ ~use_deepcopy) =>
      /\ copy_ = copyfunction
      /\ err # Error("ValueError", "copyfunction", FALSE)
      /\ \A i \in DOMAIN calls : \A j \in DOMAIN arguments :
           arguments[j].name \in DOMAIN calls[i].kwargs_dict =>
             calls[i].kwargs_dict[arguments[j].name]
               = ApplyCopy(copyfunction, heap, arguments[j].default_val).ref

\* ------------------------------------------------------------------ C9
\* C9: use_deepcopy=True together with a copyfunction raises the
\* configuration error at construction: no decorator is applied, no wrapper
\* exists and no call runs.
C9_DeepcopyWithCopyfunctionRaises ==
    (phase # "start" /\ use_deepcopy /\ copyfunction # None) =>
      /\ phase = "error"
      /\ err = Error("ValueError", "copyfunction", FALSE)
      /\ ~Applied
      /\ arguments = << >> /\ kwonly_arguments = << >>
      /\ calls = << >>

C9_Witness ==
    /\ phase = "error"
    /\ use_deepcopy
    /\ copyfunction = "identity"
    /\ err = Error("ValueError", "copyfunction", FALSE)

\* ----------------------------------------------------------------- C10
\* C10: in protect-all mode (mutable(f) or mutable()(f)) the tracked set is
\* exactly the positional parameters from firstDefaultIndex on, each with
\* its own index and its own default, and the defaulted keyword-only
\* parameters, each with its own default.
C10_ProtectAll ==
    (phase = "wrapped" /\ args = << >>) =>
      /\ Len(arguments) = Len(f.defaults)
      /\ \A i \in DOMAIN arguments :
           arguments[i] = Parameter(f.args[FirstDefaultIndex(f) + i],
                                    FirstDefaultIndex(f) + i - 1,
                                    f.defaults[i])
      /\ {kwonly_arguments[i].name : i \in DOMAIN kwonly_arguments}
           = DOMAIN f.kwonlydefaults
      /\ Len(kwonly_arguments) = Cardinality(DOMAIN f.kwonlydefaults)
      /\ \A i \in DOMAIN kwonly_arguments :
           kwonly_arguments[i].default_val
             = f.kwonlydefaults[kwonly_arguments[i].name]

C10_Witness ==
    /\ phase = "wrapped"
    /\ args = << >>
    /\ form = "bare"
    /\ Len(f.args) > Len(f.defaults)
    /\ Len(arguments) = 2
    /\ arguments[2].idx = 2

====
